---- MODULE Spec2Model ----
(***************************************************************************)
(* Model of the audio watchdog of src/src/awareness/audio_monitoring.py    *)
(* (class AudioMonitor): the capture callback, the recording worker        *)
(* thread, save_recording with its retention deque, and the stop path of   *)
(* start_monitoring.                                                       *)
(*                                                                         *)
(* Threads: 0 is the thread that calls start_monitoring; 1..MaxWorkers are *)
(* the recording worker threads in order of creation; the capture callback *)
(* runs on the audio driver's thread (cb).                                 *)
(*                                                                         *)
(* Units: amplitudes are in hundredths (0.01), times are in units of two   *)
(* seconds (`now` is the time that has really passed, and WallClock is     *)
(* time.time() read at that granularity).                                  *)
(* Statements that neither wait nor do input/output take much less than a  *)
(* clock unit, so the clock advances only while every thread waits, sleeps *)
(* or is inside the slow parts of save_recording (see Tick).               *)
(***************************************************************************)
EXTENDS Integers, Sequences, FiniteSets, TLC

\* ---------------------------------------------------------------- bounds
MaxFrames == 3          \* frames the driver delivers in one run
MaxWorkers == 2         \* worker threads created in one run
MaxStarts == 2          \* calls of start_monitoring in one run
MaxTime == 2            \* last clock value
MaxFrameLen == 1        \* samples per delivered block
\* scaled configuration: the source sets max_recordings = 6 (line 67), a pre-buffer
\* of int(buffer_seconds * sample_rate) = 16000 samples (line 75) and
\* min_record_time = 10 seconds (line 64)
max_recordings == 1
pre_buffer_maxlen == 2
min_record_time == 2

\* ------------------------------------------------------ program constants
threshold == 2          \* self.threshold = 0.02
silence_threshold == 1  \* self.silence_threshold = 0.01
silence_limit == 1      \* self.silence_limit = 2.0 (seconds)
join_timeout == 1       \* recording_thread.join(timeout=2.0)

\* how far an adjustment moves the wall clock, in clock units
MaxSkew == 1

\* the awareness node: the number of publish_trigger calls of a run, the reading of
\* time.time() when the node is constructed (seconds since 1970, so far above any
\* cooldown) and the seconds the run lasts
MaxCalls == 4
ConstructionTime == 5
MaxElapsed == 5

\* the awareness node's AudioMonitor: the loop threads a run creates and the calls of
\* start() and stop() it makes
MaxLoopThreads == 2
MaxMonitorCalls == 4

\* messaging: the messages a run publishes
MaxMessages == 2

\* config.py line 31: "cooldown": 2.0, in seconds
trigger_cooldown == 2

\* the number of AwarenessConfig instances a process constructs
MaxConfigs == 3

\* the number of requests the brains node answers
MaxRequests == 2

Amplitudes == 1..3      \* at the silence threshold, at the trigger threshold, above it
Workers == 1..MaxWorkers
Threads == 0..MaxWorkers
Main == 0

\* the threads that run AudioMonitor._monitor_loop of awareness.py, in order of creation
LoopThreads == 1..MaxLoopThreads

VARIABLES
    now,                     \* the time that has really passed (a monotonic clock)
    is_monitoring,           \* self.is_monitoring
    is_recording,            \* self.is_recording
    recorded_chunks,         \* self.recorded_chunks
    pre_buffer,              \* self.pre_buffer (deque of samples)
    previous_recordings,     \* self.previous_recordings (deque of paths)
    recording_thread,        \* self.recording_thread (0: None)
    last_recording_duration, \* self.last_recording_duration
    files,                   \* the output directory: path -> audio written there
    writing,                 \* the output directory: paths of files opened and not yet
                             \* written to the end
    transcripts,             \* paths whose .txt sidecar exists
    pc,                      \* position of each thread
    record_start,            \* worker local record_start
    last_sound,              \* worker local last_sound
    by_rule,                 \* worker left its loop by the break of line 214
    data,                    \* save_recording local data (np.concatenate result)
    mp3_path,                \* save_recording local mp3_path (-1: unset)
    cb,                      \* the capture callback: position and its indata
    join_start,              \* time the join of line 385 began
    nframes, nworkers, starts,   \* counters that bound the run
    published,               \* history: the on_recording_complete calls since the last start
    above_seen,              \* history: some frame's volume exceeded the trigger threshold
    sound_at,                \* history: arrival time of the newest non-silent frame (-1: none)
    io_failed,               \* history: a write failed for a reason outside the program
    settings,                \* the recording settings as attributes of the object (lines 62-67)
    skew,                    \* what the wall clock has been set forward (+) or back (-) by
    hook_raised,             \* history: the hook called by the thread's flush raised
                             \* (kept until the flush resets the session)
    monotonic,               \* history: the time that had really passed when each worker
                             \* read its record_start and its last_sound
    last_trigger_time,       \* AwarenessNode: self.last_trigger_time
    wall_clock,              \* AwarenessNode: what time.time() returns, in seconds
    trigger_log,             \* history: the calls of self.publisher.publish, oldest first
    trigger_calls,           \* history: the number of publish_trigger calls made
    heap,                    \* config.py: the dict objects that hold sections, by identity
    configs,                 \* config.py: the AwarenessConfig instances constructed so far
    handled,                 \* brains.py: the requests _handle_request has answered, with
                             \* the response returned and the agent calls made for each
    is_running,              \* awareness.py AudioMonitor: self.is_running
    thread,                  \* self.thread: the newest loop thread, 0 for None
    pa,                      \* self.pa is a PyAudio object (FALSE: None)
    stream,                  \* self.stream: the loop thread that opened it, 0 for None
    loop_pc,                 \* the position of each loop thread in _monitor_loop
    caller_pc,               \* the position of the thread that calls start() and stop()
    last_call,               \* history: the newest call of start() or stop(), and what
                             \* it returned
    ncalls,                  \* history: the number of start() and stop() calls so far
    nthreads,                \* the number of loop threads created so far
    wire,                    \* messaging.py: the bytes the publisher's socket has sent
    in_flight,               \* the subscriber's socket has a message to receive
    verify_signatures,       \* SubscriberBase.verify_signatures
    msg_time,                \* time.time() as messaging.py reads it
    sent,                    \* history: the newest message create_message returned
    changed,                 \* history: the bytes were changed after they were sent
    received,                \* history: what the newest call of receive did
    nmsgs                    \* history: the number of messages published so far

\* the variables of AwarenessNode.publish_trigger (awareness.py)
triggerVars == <<last_trigger_time, wall_clock, trigger_log, trigger_calls>>

\* the variables of AwarenessConfig (config.py)
configVars == <<heap, configs>>

\* the variables of BrainsNode (brains.py)
brainsVars == <<handled>>

\* the variables of the awareness node's AudioMonitor (awareness.py)
loopVars == <<is_running, thread, pa, stream, loop_pc, caller_pc, last_call, ncalls,
              nthreads>>

\* the variables of the publisher and the subscriber (common/messaging.py)
messagingVars == <<wire, in_flight, verify_signatures, msg_time, sent, changed,
                   received, nmsgs>>

\* the variables of the other components, which the monitor never touches
nodeVars == <<triggerVars, configVars, brainsVars, loopVars, messagingVars>>

vars == <<now, is_monitoring, is_recording, recorded_chunks, pre_buffer,
          previous_recordings, recording_thread, last_recording_duration, files,
          writing, transcripts, pc, record_start, last_sound, by_rule, data, mp3_path, cb,
          join_start, nframes, nworkers, starts, published, above_seen, sound_at,
          io_failed, settings, skew, monotonic, hook_raised, nodeVars>>

\* ---------------------------------------------------------- pure helpers

\* a bounded buffer that refuses new entries once it is full
DequeExtendKeepsOldest(dq, items, m) ==
    LET s == dq \o items
    IN IF Len(s) > m THEN SubSeq(s, 1, m) ELSE s

\* collections.deque(maxlen=m).extend(items): the oldest entries drop first
DequeExtend(dq, items, m) ==
    LET s == dq \o items
    IN IF Len(s) > m THEN SubSeq(s, Len(s) - m + 1, Len(s)) ELSE s

\* a plain list.append in place of the bounded deque
DequeAppendUnbounded(dq, x, m) == Append(dq, x)

\* collections.deque(maxlen=m).append(x)
DequeAppend(dq, x, m) == DequeExtend(dq, <<x>>, m)

\* indata.copy(): one block of shape (n, 1)
Block(f) == [id |-> f.id, k |-> 0, n |-> f.n, amp |-> f.amp, dim |-> 2]

\* iterating a block of shape (n, 1) yields its n rows, each of shape (1,)
Rows(f) == [k \in 1..f.n |-> [id |-> f.id, k |-> k, n |-> 1, amp |-> f.amp, dim |-> 1]]

\* np.linalg.norm(x) / np.sqrt(len(x)) of a block whose samples all have magnitude amp
Volume(chunk) == chunk.amp

\* the trigger comparison made inclusive
AboveTriggerInclusive(volume) == volume >= threshold

\* line 153: volume_norm > self.threshold
AboveTrigger(volume) == volume > threshold

\* line 195: volume > self.silence_threshold
IsSound(volume) == volume > silence_threshold

\* the two conditions joined by "or"
ShouldStopEither(elapsed, elapsed_since_sound) ==
    elapsed >= min_record_time \/ elapsed_since_sound >= silence_limit

\* lines 208-209
ShouldStop(elapsed, elapsed_since_sound) ==
    elapsed >= min_record_time /\ elapsed_since_sound >= silence_limit

\* np.concatenate raises on an empty list and on arrays of different dimension
CanConcatenate(chunks) ==
    /\ chunks # <<>>
    /\ \A i, j \in 1..Len(chunks) : chunks[i].dim = chunks[j].dim

\* the samples of one chunk, in order, each named <<frame id, index in frame>>
Samples(c) == IF c.dim = 1 THEN <<(<<c.id, c.k>>)>> ELSE [k \in 1..c.n |-> <<c.id, k>>]

RECURSIVE Concatenate(_)
Concatenate(chunks) ==
    IF chunks = <<>> THEN <<>>
    ELSE Samples(Head(chunks)) \o Concatenate(Tail(chunks))

Range(s) == {s[i] : i \in 1..Len(s)}

\* time.time() and datetime.now(): the wall clock, which can be set while the program
\* runs
WallClock == now + skew

\* threading.Thread.is_alive()
IsAlive(t) == pc[t] \notin {"none", "dead"}

Alive == {t \in Workers : IsAlive(t)}

NoFrame == [id |-> 0, n |-> 0, amp |-> 0]

\* the function fs with path p (re)written to hold d
WriteFile(fs, p, d) == [q \in DOMAIN fs \cup {p} |-> IF q = p THEN d ELSE fs[q]]

\* the function fs without the paths in ps
Unlink(fs, ps) == [q \in DOMAIN fs \ ps |-> fs[q]]

\* cleanup_old_recordings: the entries popped from the left while len > max_recordings
RECURSIVE CleanupPopped(_)
CleanupPopped(dq) ==
    IF Len(dq) > max_recordings THEN <<Head(dq)>> \o CleanupPopped(Tail(dq)) ELSE <<>>

\* cleanup_old_recordings: the deque it leaves
RECURSIVE CleanupKept(_)
CleanupKept(dq) ==
    IF Len(dq) > max_recordings THEN CleanupKept(Tail(dq)) ELSE dq

\* where save_recording returns to: the worker's finally, or the caller of start_monitoring
Ret(t) == IF t = Main THEN "idle" ELSE "w_finally"

\* ---- common/messaging.py: Python and JSON values
\* a string, an integer and None (null in JSON), each with the text json.dumps writes
Str(x) == [t |-> "str", s |-> x]
Num(x) == [t |-> "int", s |-> x]
None == [t |-> "null", s |-> "null"]

\* a payload is a dict, here the set of its (key, value) pairs; the keys and values of
\* the payloads published in a run
MsgTypes == {"trigger_event", "response"}
Payloads == {{}, {<<Str("trigger_type"), Str("audio")>>},
             {<<Str("trigger_type"), Str("video")>>}}

\* the keys of a message (lines 109-118)
Fields == {"type", "payload", "timestamp", "signature"}

\* json.dumps of a dict: every key is written as a string, the values as they are;
\* json.loads reads the pairs back as written
DumpsDict(d) == {<<Str(pr[1].s), pr[2]>> : pr \in d}

\* lines 62-77, _generate_signature: the HMAC-SHA256 of json.dumps(message_data,
\* sort_keys=True) under the key of _get_auth_key (one key throughout, lines 43-59),
\* as a hex string. Two digests are equal exactly if the texts signed are equal.
GenerateSignature(type, payload, timestamp) ==
    [t |-> "hmac", s |-> "",
     text |-> [type |-> type, payload |-> DumpsDict(payload), timestamp |-> timestamp]]

\* a value found under "signature" that is no digest: a string, a number or null
OtherSignature(v) ==
    [t |-> v.t, s |-> v.s, text |-> [type |-> None, payload |-> {}, timestamp |-> -1]]

\* the value is a Python str of ASCII characters, which hmac.compare_digest accepts
IsStr(sig) == sig.t \in {"hmac", "str"}

\* lines 79-91, _verify_signature: hmac.compare_digest(signature, expected_sig), which
\* raises TypeError unless both are str (or both bytes-like)
VerifySignature(type, payload, timestamp, signature) ==
    IF IsStr(signature)
    THEN [raised |-> FALSE, ok |-> signature = GenerateSignature(type, payload, timestamp)]
    ELSE [raised |-> TRUE, ok |-> FALSE]

\* lines 94-118, create_message at time.time() = time. The timestamp is a number, -1
\* standing for None
create_message(msg_type, payload, time) ==
    [present |-> Fields, type |-> Str(msg_type), payload |-> payload, timestamp |-> time,
     signature |-> GenerateSignature(Str(msg_type), payload, time)]

\* lines 121-131, serialize_message: the JSON text of the message, as the object it
\* denotes
serialize_message(message) ==
    [wellformed |-> TRUE, present |-> message.present, type |-> message.type,
     payload |-> DumpsDict(message.payload), timestamp |-> message.timestamp,
     signature |-> message.signature]

\* what dict.get and dict.pop return for a key that is missing (lines 148-153)
Default(f) ==
    CASE f = "type" -> None
      [] f = "payload" -> {}
      [] f = "timestamp" -> -1
      [] f = "signature" -> OtherSignature(Str(""))

\* lines 155-162: the message returned when the bytes are no JSON text
ErrorMessage(time) ==
    [present |-> Fields \ {"signature"}, type |-> Str("error"),
     payload |-> {<<Str("message"), Str("Invalid message format")>>},
     timestamp |-> time, signature |-> Default("signature")]

\* lines 134-162, deserialize_message at time.time() = time: json.loads, the signature
\* popped with default "", the verification over type, payload (default {}) and
\* timestamp; an exception other than JSONDecodeError leaves the function
deserialize_message(message_bytes, time) ==
    IF ~message_bytes.wellformed
    THEN [raised |-> FALSE, message |-> ErrorMessage(time), is_authentic |-> FALSE]
    ELSE LET message == [present |-> message_bytes.present \ {"signature"},
                         type |-> message_bytes.type,
                         payload |-> message_bytes.payload,
                         timestamp |-> message_bytes.timestamp,
                         signature |-> Default("signature")]
             v == VerifySignature(message_bytes.type, message_bytes.payload,
                                  message_bytes.timestamp, message_bytes.signature)
         IN [raised |-> v.raised, message |-> message, is_authentic |-> v.ok]

\* no message, no bytes, and no call of receive yet
NoMessage == [present |-> {}, type |-> None, payload |-> {}, timestamp |-> -1,
              signature |-> Default("signature")]
NoBytes == [wellformed |-> FALSE, present |-> {}, type |-> None, payload |-> {},
            timestamp |-> -1, signature |-> Default("signature")]
NotCalled == [outcome |-> "not called", message |-> NoMessage, is_authentic |-> FALSE]

\* config.py lines 17-38, the class attribute DEFAULT_CONFIG: one outer dict whose values are
\* inner dict objects. An object is its index in heap; the three inner dicts built
\* when the class body runs are objects 1, 2 and 3. (The keys record_seconds,
\* resolution, fps and keywords and the section "logging" behave as the keys kept.)
DEFAULT_CONFIG == [audio |-> 1, video |-> 2, triggers |-> 3]

\* config.py lines 18-33: the contents the three inner dicts are created with
DefaultSections ==
    << [enabled |-> TRUE, sample_rate |-> 16000, chunk_size |-> 1024,
        amplitude_threshold |-> 1000],
       [enabled |-> FALSE],
       [cooldown |-> 2] >>

\* lines 62-67: the settings every constructed monitor has; the constructor takes
\* none of them as an argument
DefaultSettings ==
    [threshold |-> threshold, silence_limit |-> silence_limit,
     min_record_time |-> min_record_time, buffer_capacity |-> pre_buffer_maxlen,
     max_recordings |-> max_recordings]

\* ------------------------------------------------------------------ Init
Init ==
    /\ now = 0
    /\ is_monitoring = FALSE
    /\ is_recording = FALSE
    /\ recorded_chunks = <<>>
    /\ pre_buffer = <<>>
    /\ previous_recordings = <<>>
    /\ recording_thread = 0
    /\ last_recording_duration = 0
    /\ files = <<>>
    /\ writing = {}
    /\ transcripts = {}
    /\ pc = [t \in Threads |-> IF t = Main THEN "idle" ELSE "none"]
    /\ record_start = [t \in Workers |-> 0]
    /\ last_sound = [t \in Workers |-> 0]
    /\ by_rule = [t \in Workers |-> FALSE]
    /\ data = [t \in Threads |-> <<>>]
    /\ mp3_path = [t \in Threads |-> -1]
    /\ cb = [pc |-> "idle", f |-> NoFrame]
    /\ join_start = 0
    /\ nframes = 0
    /\ nworkers = 0
    /\ starts = 0
    /\ published = {}
    /\ above_seen = FALSE
    /\ sound_at = -1
    /\ io_failed = FALSE
    /\ settings = DefaultSettings
    /\ skew = 0
    /\ monotonic = [t \in Workers |-> [start |-> 0, sound |-> 0]]
    /\ hook_raised = [t \in Threads |-> FALSE]
    /\ last_trigger_time = 0
    /\ wall_clock = ConstructionTime
    /\ trigger_log = <<>>
    /\ trigger_calls = 0
    /\ heap = DefaultSections
    /\ configs = <<>>
    /\ handled = <<>>
    /\ is_running = FALSE
    /\ thread = 0
    /\ pa = FALSE
    /\ stream = 0
    /\ loop_pc = [t \in LoopThreads |-> "none"]
    /\ caller_pc = "new"
    /\ last_call = [op |-> "none", result |-> "None"]
    /\ ncalls = 0
    /\ nthreads = 0
    /\ wire = NoBytes
    /\ in_flight = FALSE
    /\ verify_signatures = TRUE
    /\ msg_time = 0
    /\ sent = NoMessage
    /\ changed = FALSE
    /\ received = NotCalled
    /\ nmsgs = 0

\* ---------------------------------------------- start_monitoring (thread 0)

\* start_monitoring up to the open stream (lines 337-362)
StartMonitoring ==
    /\ pc[Main] = "idle"
    /\ starts < MaxStarts
    /\ starts' = starts + 1
    /\ is_monitoring' = TRUE
    /\ pc' = [pc EXCEPT ![Main] = "monitoring"]
    /\ published' = {}
    /\ UNCHANGED <<now, is_recording, recorded_chunks, pre_buffer, previous_recordings,
                   recording_thread, last_recording_duration, files, transcripts,
                   record_start, last_sound, by_rule, data, mp3_path, cb, join_start,
                   nframes, nworkers, above_seen, sound_at,
                   io_failed, writing, settings, skew, monotonic, hook_raised, nodeVars>>

\* monitoring is stopped: the wait of lines 364-372 ends (Ctrl+C, the duration
\* elapsed, or is_monitoring cleared from outside), the stream closes (the driver lets
\* a running callback return first), and the finally block runs up to the join
\* (lines 378-385)
StopMonitoring ==
    /\ pc[Main] = "monitoring"
    /\ cb.pc = "idle"
    /\ is_monitoring' = FALSE
    /\ is_recording' = FALSE
    /\ IF is_recording
       THEN IF recording_thread # 0 /\ IsAlive(recording_thread)
            THEN /\ pc' = [pc EXCEPT ![Main] = "m_join"]
                 /\ join_start' = now
            ELSE /\ pc' = [pc EXCEPT ![Main] = "sv_check"]
                 /\ UNCHANGED join_start
       ELSE /\ pc' = [pc EXCEPT ![Main] = "idle"]
            /\ UNCHANGED join_start
    /\ UNCHANGED <<now, recorded_chunks, pre_buffer, previous_recordings,
                   recording_thread, last_recording_duration, files, transcripts,
                   record_start, last_sound, by_rule, data, mp3_path, cb, nframes,
                   nworkers, starts, published, above_seen, sound_at,
                   io_failed, writing, settings, skew, monotonic, hook_raised, nodeVars>>

\* recording_thread.join(timeout=2.0) returns: the thread ended, or the timeout passed
JoinReturns ==
    /\ pc[Main] = "m_join"
    /\ \/ ~IsAlive(recording_thread)
       \/ now - join_start >= join_timeout
    /\ pc' = [pc EXCEPT ![Main] = "sv_check"]
    /\ join_start' = 0
    /\ UNCHANGED <<now, is_monitoring, is_recording, recorded_chunks, pre_buffer,
                   previous_recordings, recording_thread, last_recording_duration,
                   files, transcripts, record_start, last_sound, by_rule, data,
                   mp3_path, cb, nframes, nworkers, starts, published, above_seen,
                   sound_at,
                   io_failed, writing, settings, skew, monotonic, hook_raised, nodeVars>>

\* ------------------------------------------------------- audio_callback

\* lines 126-160: volume, pre-buffer, and the branch on is_recording: while recording
\* the block is appended (line 140); on a trigger the flag is set and the worker
\* thread is started
FrameArrives(a, n) ==
    /\ pc[Main] = "monitoring"
    /\ cb.pc = "idle"
    /\ nframes < MaxFrames
    /\ LET f == [id |-> nframes + 1, n |-> n, amp |-> a]
           volume_norm == Volume(Block(f))
       IN /\ pre_buffer' = DequeExtend(pre_buffer, Rows(f), pre_buffer_maxlen)
          /\ nframes' = nframes + 1
          /\ above_seen' = (above_seen \/ volume_norm > threshold)
          /\ sound_at' = IF IsSound(volume_norm) THEN now ELSE sound_at
          /\ IF is_recording
             THEN /\ recorded_chunks' = Append(recorded_chunks, Block(f))
                  /\ UNCHANGED <<is_recording, recording_thread, pc, nworkers, cb>>
             ELSE IF AboveTrigger(volume_norm)
             THEN /\ nworkers < MaxWorkers
                  /\ is_recording' = TRUE
                  /\ nworkers' = nworkers + 1
                  /\ recording_thread' = nworkers + 1
                  /\ pc' = [pc EXCEPT ![nworkers + 1] = "w_init"]
                  /\ cb' = [pc |-> "preroll", f |-> f]
                  /\ UNCHANGED recorded_chunks
             ELSE UNCHANGED <<is_recording, recording_thread, pc, nworkers, cb,
                              recorded_chunks>>
    /\ UNCHANGED <<now, is_monitoring, previous_recordings, last_recording_duration,
                   files, transcripts, record_start, last_sound, by_rule, data,
                   mp3_path, join_start, starts, published,
                   io_failed, writing, settings, skew, monotonic, hook_raised, nodeVars>>

\* a snapshot that drains the buffer it copies
CallbackPrerollDrains ==
    /\ cb.pc = "preroll"
    /\ recorded_chunks' = recorded_chunks \o pre_buffer
    /\ pre_buffer' = <<>>
    /\ cb' = [pc |-> "idle", f |-> NoFrame]
    /\ UNCHANGED <<now, is_monitoring, is_recording, previous_recordings,
                   recording_thread, last_recording_duration, files, transcripts, pc,
                   record_start, last_sound, by_rule, data, mp3_path, join_start,
                   nframes, nworkers, starts, published, above_seen, sound_at,
                   io_failed, writing, settings, skew, monotonic, hook_raised, nodeVars>>

\* lines 163-164: every entry of the pre-buffer is appended to the recording
CallbackPreroll ==
    /\ cb.pc = "preroll"
    /\ recorded_chunks' = recorded_chunks \o pre_buffer
    /\ cb' = [pc |-> "idle", f |-> NoFrame]
    /\ UNCHANGED <<now, is_monitoring, is_recording, pre_buffer, previous_recordings,
                   recording_thread, last_recording_duration, files, transcripts, pc,
                   record_start, last_sound, by_rule, data, mp3_path, join_start,
                   nframes, nworkers, starts, published, above_seen, sound_at,
                   io_failed, writing, settings, skew, monotonic, hook_raised, nodeVars>>

\* ----------------------------------------------------- _recording_worker

\* lines 173-178: the timers are read and frames_per_second is evaluated
WorkerInit(t) ==
    /\ pc[t] = "w_init"
    /\ record_start' = [record_start EXCEPT ![t] = WallClock]
    /\ last_sound' = [last_sound EXCEPT ![t] = WallClock]
    /\ monotonic' = [monotonic EXCEPT ![t] = [start |-> now, sound |-> now]]
    /\ pc' = [pc EXCEPT ![t] = "w_loop"]
    /\ UNCHANGED <<now, is_monitoring, is_recording, recorded_chunks, pre_buffer,
                   previous_recordings, recording_thread, last_recording_duration,
                   files, transcripts, by_rule, data, mp3_path, cb, join_start,
                   nframes, nworkers, starts, published, above_seen, sound_at,
                   io_failed, writing, settings, skew, hook_raised, nodeVars>>

\* line 175 stands before the try of line 180: when sd.default_blocksize raises (the
\* attribute missing, or a block size of zero) the thread ends there and the finally
\* of line 224 never runs
WorkerInitRaises(t) ==
    /\ pc[t] = "w_init"
    /\ pc' = [pc EXCEPT ![t] = "dead"]
    /\ UNCHANGED <<now, is_monitoring, is_recording, recorded_chunks, pre_buffer,
                   previous_recordings, recording_thread, last_recording_duration,
                   files, transcripts, record_start, last_sound, by_rule, data,
                   mp3_path, cb, join_start, nframes, nworkers, starts, published,
                   above_seen, sound_at,
                   io_failed, writing, settings, skew, monotonic, hook_raised, nodeVars>>

\* lines 181-184: the loop condition, and the short sleep while there is no chunk;
\* the worker gets here when its sleep ends, which may be well within a clock unit
WorkerLoop(t) ==
    /\ pc[t] \in {"w_loop", "w_sleep"}
    /\ pc' = [pc EXCEPT ![t] = IF ~is_recording THEN "sv_check"
                                ELSE IF recorded_chunks = <<>> THEN "w_sleep"
                                ELSE "w_poll"]
    /\ UNCHANGED <<now, is_monitoring, is_recording, recorded_chunks, pre_buffer,
                   previous_recordings, recording_thread, last_recording_duration,
                   files, transcripts, record_start, last_sound, by_rule, data,
                   mp3_path, cb, join_start, nframes, nworkers, starts, published,
                   above_seen, sound_at,
                   io_failed, writing, settings, skew, monotonic, hook_raised, nodeVars>>

\* lines 186-217: the newest chunk is measured and the termination rule is applied;
\* recorded_chunks[-1] raises IndexError on a list that was cleared meanwhile, which
\* the except of line 222 catches
WorkerPoll(t) ==
    /\ pc[t] = "w_poll"
    /\ IF recorded_chunks = <<>>
       THEN /\ pc' = [pc EXCEPT ![t] = "w_finally"]
            /\ UNCHANGED <<last_sound, last_recording_duration, by_rule, monotonic>>
       ELSE LET volume == Volume(recorded_chunks[Len(recorded_chunks)])
                current_time == WallClock
                elapsed == current_time - record_start[t]
                sound == IF IsSound(volume) THEN current_time ELSE last_sound[t]
                elapsed_since_sound == current_time - sound
            IN /\ last_sound' = [last_sound EXCEPT ![t] = sound]
               /\ monotonic' = [monotonic EXCEPT ![t].sound =
                                    IF IsSound(volume) THEN now ELSE @]
               /\ IF ShouldStop(elapsed, elapsed_since_sound)
                  THEN /\ last_recording_duration' = elapsed
                       /\ by_rule' = [by_rule EXCEPT ![t] = TRUE]
                       /\ pc' = [pc EXCEPT ![t] = "sv_check"]
                  ELSE /\ pc' = [pc EXCEPT ![t] = "w_sleep"]
                       /\ UNCHANGED <<last_recording_duration, by_rule>>
    /\ UNCHANGED <<now, is_monitoring, is_recording, recorded_chunks, pre_buffer,
                   previous_recordings, recording_thread, files, transcripts,
                   record_start, data, mp3_path, cb, join_start, nframes, nworkers,
                   starts, published, above_seen, sound_at,
                   io_failed, writing, settings, skew, hook_raised, nodeVars>>

\* lines 224-226: the finally of the worker; the thread ends and its locals with it
WorkerFinally(t) ==
    /\ pc[t] = "w_finally"
    /\ is_recording' = FALSE
    /\ pc' = [pc EXCEPT ![t] = "dead"]
    /\ record_start' = [record_start EXCEPT ![t] = 0]
    /\ last_sound' = [last_sound EXCEPT ![t] = 0]
    /\ monotonic' = [monotonic EXCEPT ![t] = [start |-> 0, sound |-> 0]]
    /\ by_rule' = [by_rule EXCEPT ![t] = FALSE]
    /\ UNCHANGED <<now, is_monitoring, recorded_chunks, pre_buffer,
                   previous_recordings, recording_thread, last_recording_duration,
                   files, transcripts, data, mp3_path, cb, join_start, nframes,
                   nworkers, starts, published, above_seen, sound_at,
                   io_failed, writing, settings, skew, hook_raised, nodeVars>>

\* ------------------------------------------------------- save_recording

\* save_recording without the emptiness test of line 230
SaveCheckAlwaysWrites(t) ==
    /\ pc[t] = "sv_check"
    /\ pc' = [pc EXCEPT ![t] = "sv_write"]
    /\ UNCHANGED <<now, is_monitoring, is_recording, recorded_chunks, pre_buffer,
                   previous_recordings, recording_thread, last_recording_duration,
                   files, transcripts, record_start, last_sound, by_rule, data,
                   mp3_path, cb, join_start, nframes, nworkers, starts, published,
                   above_seen, sound_at,
                   io_failed, writing, settings, skew, monotonic, hook_raised, nodeVars>>

\* lines 230-236
SaveCheck(t) ==
    /\ pc[t] = "sv_check"
    /\ pc' = [pc EXCEPT ![t] = IF recorded_chunks = <<>> THEN Ret(t) ELSE "sv_write"]
    /\ UNCHANGED <<now, is_monitoring, is_recording, recorded_chunks, pre_buffer,
                   previous_recordings, recording_thread, last_recording_duration,
                   files, transcripts, record_start, last_sound, by_rule, data,
                   mp3_path, cb, join_start, nframes, nworkers, starts, published,
                   above_seen, sound_at,
                   io_failed, writing, settings, skew, monotonic, hook_raised, nodeVars>>

\* line 235 raising (no usable temporary directory, no free descriptor): the call
\* stands before the try of line 238, so the exception leaves save_recording with the
\* chunk list as it is; in the worker the except of line 222 catches it, in the stop
\* path it leaves start_monitoring
SaveTempRaises(t) ==
    /\ pc[t] = "sv_check"
    /\ recorded_chunks # <<>>
    /\ pc' = [pc EXCEPT ![t] = Ret(t)]
    /\ io_failed' = TRUE
    /\ UNCHANGED <<now, is_monitoring, is_recording, recorded_chunks, pre_buffer,
                   previous_recordings, recording_thread, last_recording_duration,
                   files, transcripts, record_start, last_sound, by_rule, data,
                   mp3_path, cb, join_start, nframes, nworkers, starts, published,
                   above_seen, sound_at,
                   writing, settings, skew, monotonic, hook_raised, nodeVars>>

\* lines 241-256, up to the start of the export: the chunks are concatenated and
\* written to the temporary WAV file, the name of the current second is chosen, and
\* AudioSegment.export opens that final path for writing ("wb+": the file exists from
\* here on, empty, and a file that was there is truncated) before it encodes;
\* np.concatenate raising leads to the except of line 274
SaveWrite(t) ==
    /\ pc[t] = "sv_write"
    /\ IF CanConcatenate(recorded_chunks)
       THEN /\ data' = [data EXCEPT ![t] = Concatenate(recorded_chunks)]
            /\ mp3_path' = [mp3_path EXCEPT ![t] = WallClock]
            /\ files' = Unlink(files, {WallClock})
            /\ writing' = writing \cup {WallClock}
            /\ pc' = [pc EXCEPT ![t] = "sv_export"]
       ELSE /\ pc' = [pc EXCEPT ![t] = "sv_reset"]
            /\ UNCHANGED <<data, mp3_path, files, writing>>
    /\ UNCHANGED <<now, is_monitoring, is_recording, recorded_chunks, pre_buffer,
                   previous_recordings, recording_thread, last_recording_duration,
                   transcripts, record_start, last_sound, by_rule, cb, join_start,
                   nframes, nworkers, starts, published, above_seen, sound_at,
                   io_failed, settings, skew, monotonic, hook_raised, nodeVars>>

\* line 256, the rest of audio.export: the audio is encoded and written into the file
\* opened under the final path
SaveExport(t) ==
    /\ pc[t] = "sv_export"
    /\ files' = WriteFile(files, mp3_path[t], data[t])
    /\ writing' = writing \ {mp3_path[t]}
    /\ pc' = [pc EXCEPT ![t] = "sv_append"]
    /\ UNCHANGED <<now, is_monitoring, is_recording, recorded_chunks, pre_buffer,
                   previous_recordings, recording_thread, last_recording_duration,
                   transcripts, record_start, last_sound, by_rule, data, mp3_path, cb,
                   join_start, nframes, nworkers, starts, published, above_seen,
                   sound_at, io_failed, settings, skew, monotonic, hook_raised, nodeVars>>

\* line 256 raising while it encodes (encoder missing or failing, disk full): the
\* file opened under the final path stays as it is, and the except of line 274 runs
SaveExportRaises(t) ==
    /\ pc[t] = "sv_export"
    /\ io_failed' = TRUE
    /\ pc' = [pc EXCEPT ![t] = "sv_reset"]
    /\ UNCHANGED <<now, is_monitoring, is_recording, recorded_chunks, pre_buffer,
                   previous_recordings, recording_thread, last_recording_duration,
                   files, writing, transcripts, record_start, last_sound, by_rule,
                   data, mp3_path, cb, join_start, nframes, nworkers, starts,
                   published, above_seen, sound_at, settings, skew, monotonic, hook_raised, nodeVars>>

\* lines 242-253 raising (disk full or permission denied for the temporary file)
SaveWriteRaises(t) ==
    /\ pc[t] = "sv_write"
    /\ CanConcatenate(recorded_chunks)
    /\ pc' = [pc EXCEPT ![t] = "sv_reset"]
    /\ io_failed' = TRUE
    /\ UNCHANGED <<now, is_monitoring, is_recording, recorded_chunks, pre_buffer,
                   previous_recordings, recording_thread, last_recording_duration,
                   files, transcripts, record_start, last_sound, by_rule, data,
                   mp3_path, cb, join_start, nframes, nworkers, starts, published,
                   above_seen, sound_at,
                   writing, settings, skew, monotonic, hook_raised, nodeVars>>

\* line 259: self.previous_recordings.append(mp3_path)
SaveAppend(t) ==
    /\ pc[t] = "sv_append"
    /\ previous_recordings' = DequeAppend(previous_recordings, mp3_path[t], max_recordings)
    /\ pc' = [pc EXCEPT ![t] = "sv_finish"]
    /\ UNCHANGED <<now, is_monitoring, is_recording, recorded_chunks, pre_buffer,
                   recording_thread, last_recording_duration, files, transcripts,
                   record_start, last_sound, by_rule, data, mp3_path, cb, join_start,
                   nframes, nworkers, starts, published, above_seen, sound_at,
                   io_failed, writing, settings, skew, monotonic, hook_raised, nodeVars>>

\* a hook that is called only when there is a transcript
HookCallsWithTextOnly(t, text) ==
    IF text = "None" THEN {}
    ELSE {[by |-> t, path |-> mp3_path[t], transcript |-> text, data |-> data[t]]}

\* lines 270-272: the registered hook is called with the path and the transcript,
\* whatever the transcript is
HookCalls(t, text) ==
    {[by |-> t, path |-> mp3_path[t], transcript |-> text, data |-> data[t]]}

\* a save_recording without the except of line 274: what the hook raises leaves the
\* function
SaveFinishPropagates(t) ==
    /\ pc[t] = "sv_finish"
    /\ previous_recordings' = CleanupKept(previous_recordings)
    /\ \E failed \in SUBSET Range(CleanupPopped(previous_recordings)) :
          files' = Unlink(files, Range(CleanupPopped(previous_recordings)) \ failed)
    /\ \E text \in {"None", "text"} :
          /\ transcripts' = IF text = "None" THEN transcripts
                                             ELSE transcripts \cup {mp3_path[t]}
          /\ published' = published \cup HookCalls(t, text)
    /\ \E raised \in BOOLEAN :
          /\ hook_raised' = [hook_raised EXCEPT ![t] = raised]
          /\ pc' = [pc EXCEPT ![t] = IF raised THEN Ret(t) ELSE "sv_reset"]
    /\ UNCHANGED <<now, is_monitoring, is_recording, recorded_chunks, pre_buffer,
                   recording_thread, last_recording_duration, record_start, last_sound,
                   by_rule, data, mp3_path, cb, join_start, nframes, nworkers, starts,
                   above_seen, sound_at,
                   io_failed, writing, settings, skew, monotonic, nodeVars>>

\* lines 263-272: cleanup_old_recordings (lines 286-294; an unlink that raises is
\* logged), then the transcription (lines 296-335: no model, or a failure inside, gives
\* None, otherwise the sidecar is written and the text returned), then the registered
\* hook is called with the path and the transcript; whether the hook returns or
\* raises an Exception (caught at line 274), the function goes on to the finally of
\* line 276 and to line 284
SaveFinish(t) ==
    /\ pc[t] = "sv_finish"
    /\ previous_recordings' = CleanupKept(previous_recordings)
    /\ \E failed \in SUBSET Range(CleanupPopped(previous_recordings)) :
          files' = Unlink(files, Range(CleanupPopped(previous_recordings)) \ failed)
    /\ \E text \in {"None", "text"} :
          /\ transcripts' = IF text = "None" THEN transcripts
                                             ELSE transcripts \cup {mp3_path[t]}
          /\ published' = published \cup HookCalls(t, text)
    /\ \E raised \in BOOLEAN : hook_raised' = [hook_raised EXCEPT ![t] = raised]
    /\ pc' = [pc EXCEPT ![t] = "sv_reset"]
    /\ UNCHANGED <<now, is_monitoring, is_recording, recorded_chunks, pre_buffer,
                   recording_thread, last_recording_duration, record_start, last_sound,
                   by_rule, data, mp3_path, cb, join_start, nframes, nworkers, starts,
                   above_seen, sound_at,
                   io_failed, writing, settings, skew, monotonic, nodeVars>>

\* lines 276-284: the temporary file is removed and the chunk list is replaced
SaveReset(t) ==
    /\ pc[t] = "sv_reset"
    /\ recorded_chunks' = <<>>
    /\ data' = [data EXCEPT ![t] = <<>>]
    /\ mp3_path' = [mp3_path EXCEPT ![t] = -1]
    /\ hook_raised' = [hook_raised EXCEPT ![t] = FALSE]
    /\ pc' = [pc EXCEPT ![t] = Ret(t)]
    /\ UNCHANGED <<now, is_monitoring, is_recording, pre_buffer, previous_recordings,
                   recording_thread, last_recording_duration, files, transcripts,
                   record_start, last_sound, by_rule, cb, join_start, nframes,
                   nworkers, starts, published, above_seen, sound_at,
                   io_failed, writing, settings, skew, monotonic, nodeVars>>

\* ------------------------------------------------------------ the clock

\* positions a thread can hold while the clock advances: waiting, sleeping, or in
\* the slow parts of save_recording (encoding, transcribing)
Slow == {"none", "dead", "idle", "monitoring", "m_join", "w_sleep", "sv_export", "sv_finish"}

\* the join of line 385 has something left to wait for
JoinWaits == IsAlive(recording_thread) /\ now - join_start < join_timeout

\* time passes by one clock unit. The unit is long against the callback, against the
\* sleeps of the worker (0.01 s and 0.1 s) and against the statements between the slow
\* ones: a thread at such a statement executes it before the clock advances, a
\* sleeping worker whose loop test has become false leaves the loop before the clock
\* advances, and any other sleeping worker is due for its next loop test.
Tick ==
    /\ now < MaxTime
    /\ cb.pc = "idle"
    /\ \A t \in Threads : pc[t] \in Slow
    /\ \A t \in Workers : pc[t] = "w_sleep" => is_recording
    /\ pc[Main] = "m_join" => JoinWaits
    /\ now' = now + 1
    /\ pc' = [t \in Threads |-> IF pc[t] = "w_sleep" THEN "w_loop" ELSE pc[t]]
    /\ UNCHANGED <<is_monitoring, is_recording, recorded_chunks, pre_buffer,
                   previous_recordings, recording_thread, last_recording_duration,
                   files, transcripts, record_start, last_sound, by_rule, data,
                   mp3_path, cb, join_start, nframes, nworkers, starts, published,
                   above_seen, sound_at,
                   io_failed, writing, settings, skew, monotonic, hook_raised, nodeVars>>

Next ==
    \/ StartMonitoring
    \/ StopMonitoring
    \/ JoinReturns
    \/ \E a \in Amplitudes, n \in 1..MaxFrameLen : FrameArrives(a, n)
    \/ CallbackPreroll
    \/ \E t \in Workers :
          \/ WorkerInit(t)
          \/ WorkerInitRaises(t)
          \/ WorkerLoop(t)
          \/ WorkerPoll(t)
          \/ WorkerFinally(t)
    \/ \E t \in Threads :
          \/ SaveCheck(t)
          \/ SaveTempRaises(t)
          \/ SaveWrite(t)
          \/ SaveWriteRaises(t)
          \/ SaveExport(t)
          \/ SaveExportRaises(t)
          \/ SaveAppend(t)
          \/ SaveFinish(t)
          \/ SaveReset(t)
    \/ Tick

Spec == Init /\ [][Next]_vars

\* ---------------------------------------------------- setting the wall clock

\* the worker of the session in progress has read its start time (lines 173-174) and
\* is in its loop
Timing(t) == pc[t] \in {"w_loop", "w_poll", "w_sleep"}

\* the wall clock is set forward or back by d while a session is being recorded (a
\* time synchronisation step, or the operator setting the date). The time that has
\* really passed is not affected. One adjustment per run; the clock is not set back
\* past the moment the program started.
ClockAdjusted(d) ==
    /\ is_recording
    /\ \E t \in Workers : Timing(t)
    /\ skew = 0
    /\ d # 0
    /\ WallClock + d >= 0
    /\ skew' = d
    /\ UNCHANGED <<now, is_monitoring, is_recording, recorded_chunks, pre_buffer,
                   previous_recordings, recording_thread, last_recording_duration,
                   files, transcripts, pc, record_start, last_sound, by_rule, data,
                   mp3_path, cb, join_start, nframes, nworkers, starts, published,
                   above_seen, sound_at, io_failed, writing, settings, monotonic, hook_raised, nodeVars>>

NextClock ==
    \/ Next
    \/ \E d \in (-MaxSkew)..MaxSkew : ClockAdjusted(d)

SpecClock == Init /\ [][NextClock]_vars

\* ------------------------------------------------- configuring the monitor

\* the values a caller can give a setting: negative, zero, or the default
SettingValues(name) == {-1, 0, DefaultSettings[name]}

\* the only way to configure a monitor: after AudioMonitor(...) has returned, a
\* caller assigns the attribute (monitor.threshold = v); __init__ (lines 43-97) takes
\* no setting as an argument and neither it nor start_monitoring examines any value
SetAttribute(name, v) ==
    /\ pc[Main] = "idle"
    /\ starts = 0
    /\ settings' = [settings EXCEPT ![name] = v]
    /\ UNCHANGED <<now, is_monitoring, is_recording, recorded_chunks, pre_buffer,
                   previous_recordings, recording_thread, last_recording_duration,
                   files, transcripts, pc, record_start, last_sound, by_rule, data,
                   mp3_path, cb, join_start, nframes, nworkers, starts, published,
                   above_seen, sound_at, io_failed, writing, skew, monotonic, hook_raised, nodeVars>>

\* a monitor is configured and then started and stopped; Spec above is the monitor
\* that runs with the default settings, as main() of the file runs it
NextConfig ==
    \/ \E name \in DOMAIN DefaultSettings :
          \E v \in SettingValues(name) : SetAttribute(name, v)
    \/ StartMonitoring
    \/ StopMonitoring

SpecConfig == Init /\ [][NextConfig]_vars

\* ------------------------------------------------------ the awareness node

\* the variables of the monitor (audio_monitoring.py), which the node never touches
monitorVars == <<now, is_monitoring, is_recording, recorded_chunks, pre_buffer,
                 previous_recordings, recording_thread, last_recording_duration,
                 files, writing, transcripts, pc, record_start, last_sound, by_rule,
                 data, mp3_path, cb, join_start, nframes, nworkers, starts, published,
                 above_seen, sound_at, io_failed, settings, skew, monotonic, hook_raised>>

\* a test that also holds back a call made exactly trigger_cooldown after the last
InCooldownInclusive(current_time) ==
    current_time - last_trigger_time <= trigger_cooldown

\* line 234: current_time - self.last_trigger_time < self.config.trigger_cooldown
InCooldown(current_time) ==
    current_time - last_trigger_time < trigger_cooldown

\* lines 224-248, one call of publish_trigger: the early return of lines 234-235, or
\* the assignment of line 237 followed by self.publisher.publish of line 246, which
\* returns or raises (messaging.py line 72: json.dumps of a payload that is not
\* serialisable); line 237 has run in both cases
PublishTrigger(returns) ==
    /\ trigger_calls < MaxCalls
    /\ trigger_calls' = trigger_calls + 1
    /\ LET current_time == wall_clock IN
         IF InCooldown(current_time)
         THEN UNCHANGED <<last_trigger_time, trigger_log>>
         ELSE /\ last_trigger_time' = current_time
              /\ trigger_log' = Append(trigger_log,
                                       [time |-> current_time, returned |-> returns])
    /\ UNCHANGED <<wall_clock, monitorVars, configVars, brainsVars, loopVars, messagingVars>>

\* a second passes
ClockAdvances ==
    /\ wall_clock < ConstructionTime + MaxElapsed
    /\ wall_clock' = wall_clock + 1
    /\ UNCHANGED <<last_trigger_time, trigger_log, trigger_calls, monitorVars,
                   configVars, brainsVars, loopVars, messagingVars>>

NextTrigger ==
    \/ \E returns \in BOOLEAN : PublishTrigger(returns)
    \/ ClockAdvances

SpecTrigger == Init /\ [][NextTrigger]_vars

\* ------------------------------------------------- the awareness configuration

\* the config_path arguments of a run: None, a path that does not exist, a file that
\* is not JSON, and four JSON files (audio.json is the file of test_load_config_file)
ConfigPaths == {"None", "missing.json", "broken.json", "audio.json", "chunk.json",
                "video.json", "custom.json"}

\* line 50: config_path and os.path.exists(config_path)
PathExists(path) == path \notin {"None", "missing.json"}

\* line 53: json.load returns (it raises on broken.json)
Parses(path) == path # "broken.json"

\* line 53: loaded_config.items() of each file, in the order of the file
Loaded(path) ==
    CASE path = "audio.json" ->
           << <<"audio", [enabled |-> TRUE, sample_rate |-> 44100,
                          amplitude_threshold |-> 2000]>>,
              <<"triggers", [cooldown |-> 1]>> >>
      [] path = "chunk.json"  -> << <<"audio", [chunk_size |-> 512]>> >>
      [] path = "video.json"  -> << <<"video", [enabled |-> TRUE]>> >>
      [] path = "custom.json" -> << <<"custom", [level |-> 3]>> >>
      [] OTHER -> << >>

\* dict.update: the keys of values are set in d, the other keys of d stay
DictUpdate(d, values) ==
    [k \in DOMAIN d \cup DOMAIN values |->
        IF k \in DOMAIN values THEN values[k] ELSE d[k]]

\* self.config[section] = obj for a section the outer dict may not have yet
DictSet(config, section, obj) ==
    [s \in DOMAIN config \cup {section} |-> IF s = section THEN obj ELSE config[s]]

\* lines 55-59, the loop over the entries i.. of the loaded file: for a section the
\* instance has, the inner dict OBJECT it refers to is updated in place (line 57);
\* for another section the loaded value, a new object, is stored (line 59)
RECURSIVE MergeLoaded(_, _, _, _)
MergeLoaded(config, hp, items, i) ==
    IF i > Len(items) THEN [config |-> config, heap |-> hp]
    ELSE LET section == items[i][1]
             values == items[i][2]
         IN IF section \in DOMAIN config
            THEN MergeLoaded(config,
                             [hp EXCEPT ![config[section]] = DictUpdate(@, values)],
                             items, i + 1)
            ELSE MergeLoaded(DictSet(config, section, Len(hp) + 1),
                             Append(hp, values), items, i + 1)

\* lines 40-61, AwarenessConfig(config_path): line 47 copies the OUTER dict only
\* (dict.copy is shallow), so the new instance refers to the inner dicts of
\* DEFAULT_CONFIG; a file that exists and parses is then merged, and an exception
\* of json.load is caught by line 60
Construct(path) ==
    /\ Len(configs) < MaxConfigs
    /\ LET copy == DEFAULT_CONFIG
           r == IF PathExists(path) /\ Parses(path)
                THEN MergeLoaded(copy, heap, Loaded(path), 1)
                ELSE [config |-> copy, heap |-> heap]
       IN /\ heap' = r.heap
          /\ configs' = Append(configs, [path |-> path, config |-> r.config])
    /\ UNCHANGED <<monitorVars, triggerVars, brainsVars, loopVars, messagingVars>>

NextAwarenessConfig == \E path \in ConfigPaths : Construct(path)

SpecAwarenessConfig == Init /\ [][NextAwarenessConfig]_vars

\* lines 81-119, what the properties of instance i read: self.config[section][key]
Get(i, section, key) == heap[configs[i].config[section]][key]

\* -------------------------------------------------------------- the brains node

\* the values of request["type"]: the two types handled, another type of
\* messaging.MessageType, and "None" for a request without the key (line 127)
RequestTypes == {"stt_request", "tts_request", "trigger_event", "None"}

\* the values payload.get(...) returns for audio_data and text: "None" for a payload
\* without the key, the empty value, and a value with content. A payload is a dict,
\* as messaging.create_message builds it, or absent (line 128 then uses {})
FieldValues == {"None", "", "content"}

\* the requests: type, payload.get("audio_data"), payload.get("text")
Requests == [type : RequestTypes, audio_data : FieldValues, text : FieldValues]

\* what agent.text_to_speech can return: Optional[bytes] (langchain_agent.py line 92;
\* the stub of line 105 returns None, the agent of the test returns bytes)
SpeechResults == {"None", "", "content"}

\* what agent.speech_to_text can return as text (langchain_agent.py line 107)
TextResults == {"", "content"}

\* a test that takes every value but None for present
IsNotNone(v) == v # "None"

\* lines 138, 151, 153: the truth value Python gives `if v:` for None, an empty and
\* a non-empty str or bytes
Truthy(v) == v \notin {"None", ""}

\* lines 117-163, _handle_request: the response returned and the calls of the agent
\* made, given what the agent returns when called
HandleRequestResult(request, stt_text, tts_audio) ==
    LET unknown == [status |-> "error", error |-> "Unknown request type"]
    IN IF request.type = "stt_request"
       THEN IF Truthy(request.audio_data)
            THEN [response |-> [status |-> "success", text |-> stt_text],
                  calls |-> <<"speech_to_text">>]
            ELSE [response |-> [unknown EXCEPT !.error = "No audio data provided"],
                  calls |-> <<>>]
       ELSE IF request.type = "tts_request"
       THEN IF Truthy(request.text)
            THEN IF Truthy(tts_audio)
                 THEN [response |-> [status |-> "success", audio_data |-> tts_audio],
                       calls |-> <<"text_to_speech">>]
                 ELSE [response |->
                          [unknown EXCEPT !.error = "Text-to-speech conversion failed"],
                       calls |-> <<"text_to_speech">>]
            ELSE [response |-> [unknown EXCEPT !.error = "No text provided"],
                  calls |-> <<>>]
       ELSE [response |-> unknown, calls |-> <<>>]

\* lines 75-79 of start: a request is received and _handle_request answers it
HandleRequest(request, stt_text, tts_audio) ==
    /\ Len(handled) < MaxRequests
    /\ LET r == HandleRequestResult(request, stt_text, tts_audio)
       IN handled' = Append(handled, [request |-> request, tts_audio |-> tts_audio,
                                      response |-> r.response, calls |-> r.calls])
    /\ UNCHANGED <<monitorVars, triggerVars, configVars, loopVars, messagingVars>>

NextBrains ==
    \E request \in Requests, stt_text \in TextResults, tts_audio \in SpeechResults :
        HandleRequest(request, stt_text, tts_audio)

SpecBrains == Init /\ [][NextBrains]_vars

\* ------------------------------------- the awareness node's AudioMonitor

\* the variables of the components the AudioMonitor of awareness.py never touches
othersVars == <<monitorVars, triggerVars, configVars, brainsVars, messagingVars>>

\* a loop thread has been started and has not returned from _monitor_loop
LoopAlive(t) == t # 0 /\ loop_pc[t] \in {"open", "test", "read"}

\* the loop threads that run the capture loop of lines 110-126
Looping == {t \in LoopThreads : loop_pc[t] \in {"test", "read"}}

\* awareness.py lines 27-51, __init__: is_running False, thread and stream None, and
\* pa a PyAudio object or, when pyaudio cannot be imported or initialised, None
ConstructMonitor(available) ==
    /\ caller_pc = "new"
    /\ pa' = available
    /\ is_running' = FALSE
    /\ thread' = 0
    /\ stream' = 0
    /\ caller_pc' = "idle"
    /\ UNCHANGED <<loop_pc, last_call, ncalls, nthreads, othersVars>>

\* lines 53-72, start()
MonitorStart ==
    /\ caller_pc = "idle"
    /\ ncalls < MaxMonitorCalls
    /\ ncalls' = ncalls + 1
    /\ IF is_running
       THEN /\ last_call' = [op |-> "start", result |-> "True"]
            /\ UNCHANGED <<is_running, thread, loop_pc, nthreads>>
       ELSE IF ~pa
       THEN /\ last_call' = [op |-> "start", result |-> "False"]
            /\ UNCHANGED <<is_running, thread, loop_pc, nthreads>>
       ELSE /\ nthreads < MaxLoopThreads
            /\ is_running' = TRUE
            /\ nthreads' = nthreads + 1
            /\ thread' = nthreads + 1
            /\ loop_pc' = [loop_pc EXCEPT ![nthreads + 1] = "open"]
            /\ last_call' = [op |-> "start", result |-> "True"]
    /\ UNCHANGED <<pa, stream, caller_pc, othersVars>>

\* lines 74-80, stop() up to the join: the flag is cleared and the stream, if there
\* is one, closed and forgotten
MonitorStop ==
    /\ caller_pc = "idle"
    /\ ncalls < MaxMonitorCalls
    /\ ncalls' = ncalls + 1
    /\ is_running' = FALSE
    /\ stream' = 0
    /\ caller_pc' = IF thread # 0 THEN "join" ELSE "idle"
    /\ last_call' = [op |-> "stop", result |-> "None"]
    /\ UNCHANGED <<thread, pa, loop_pc, nthreads, othersVars>>

\* lines 82-85: self.thread.join(timeout=2.0) returns because the thread has ended
StopJoinReturns ==
    /\ caller_pc = "join"
    /\ ~LoopAlive(thread)
    /\ caller_pc' = "idle"
    /\ UNCHANGED <<is_running, thread, pa, stream, loop_pc, last_call, ncalls, nthreads,
                   othersVars>>

\* lines 82-85: the join returns after its two seconds while the thread is still inside
\* a blocking call, pa.open (line 97) or stream.read (line 113); stop() returns all the
\* same and self.thread still names the thread
StopJoinTimesOut ==
    /\ caller_pc = "join"
    /\ loop_pc[thread] \in {"open", "read"}
    /\ caller_pc' = "idle"
    /\ UNCHANGED <<is_running, thread, pa, stream, loop_pc, last_call, ncalls, nthreads,
                   othersVars>>

\* lines 96-104: the loop thread opens the stream and stores it in self.stream
LoopOpen(t) ==
    /\ loop_pc[t] = "open"
    /\ stream' = t
    /\ loop_pc' = [loop_pc EXCEPT ![t] = "test"]
    /\ UNCHANGED <<is_running, thread, pa, caller_pc, last_call, ncalls, nthreads,
                   othersVars>>

\* lines 105-108: pa.open raises; the thread clears is_running and returns
LoopOpenFails(t) ==
    /\ loop_pc[t] = "open"
    /\ is_running' = FALSE
    /\ loop_pc' = [loop_pc EXCEPT ![t] = "dead"]
    /\ UNCHANGED <<thread, pa, stream, caller_pc, last_call, ncalls, nthreads,
                   othersVars>>

\* line 111: while self.is_running
LoopTest(t) ==
    /\ loop_pc[t] = "test"
    /\ loop_pc' = [loop_pc EXCEPT ![t] = IF is_running THEN "read" ELSE "dead"]
    /\ UNCHANGED <<is_running, thread, pa, stream, caller_pc, last_call, ncalls,
                   nthreads, othersVars>>

\* lines 112-126: one chunk is read from self.stream and processed, or the read raises
\* (the stream closed or None) and the thread sleeps 0.1 s; then the loop test again
LoopRead(t) ==
    /\ loop_pc[t] = "read"
    /\ loop_pc' = [loop_pc EXCEPT ![t] = "test"]
    /\ UNCHANGED <<is_running, thread, pa, stream, caller_pc, last_call, ncalls,
                   nthreads, othersVars>>

NextLoop ==
    \/ \E available \in BOOLEAN : ConstructMonitor(available)
    \/ MonitorStart
    \/ MonitorStop
    \/ StopJoinReturns
    \/ StopJoinTimesOut
    \/ \E t \in LoopThreads : LoopOpen(t) \/ LoopOpenFails(t) \/ LoopTest(t) \/ LoopRead(t)

SpecLoop == Init /\ [][NextLoop]_vars

\* -------------------------------------------------- common/messaging.py

\* the variables of the components the publisher and the subscriber never touch
restVars == <<monitorVars, triggerVars, configVars, brainsVars, loopVars>>

\* lines 194-215, SubscriberBase.__init__ with verify_signatures = v
ConstructSubscriber(v) ==
    /\ nmsgs = 0
    /\ ~in_flight
    /\ v # verify_signatures
    /\ received = NotCalled
    /\ verify_signatures' = v
    /\ UNCHANGED <<wire, in_flight, msg_time, sent, changed, received, nmsgs, restVars>>

\* lines 179-188, PublisherBase.publish: create_message, serialize_message, send
Publish(msg_type, payload) ==
    /\ ~in_flight
    /\ nmsgs < MaxMessages
    /\ nmsgs' = nmsgs + 1
    /\ sent' = create_message(msg_type, payload, msg_time)
    /\ wire' = serialize_message(sent')
    /\ in_flight' = TRUE
    /\ changed' = FALSE
    /\ msg_time' = msg_time + 1
    /\ UNCHANGED <<verify_signatures, received, restVars>>

\* the field f of the JSON object taken out
Remove(w, f) == [w EXCEPT !.present = @ \ {f}, ![f] = Default(f)]

\* the values someone without the key can put under "signature": strings, a number,
\* null, and the signature of another message seen on the network
ForgedSignatures ==
    {OtherSignature(v) : v \in {Str(""), Str("00"), Num("5"), None}}
        \cup {GenerateSignature(Str(ty), pl, ts) :
                 ty \in MsgTypes, pl \in Payloads, ts \in 0..(MaxMessages - 1)}

\* the bytes w with one field replaced or taken out, or cut so that they are no JSON
Tamperings(w) ==
    {[w EXCEPT !.type = Str(ty)] : ty \in MsgTypes}
        \cup {[w EXCEPT !.payload = DumpsDict(pl)] : pl \in Payloads}
        \cup {[w EXCEPT !.timestamp = ts] : ts \in 0..MaxMessages}
        \cup {[w EXCEPT !.signature = sg] : sg \in ForgedSignatures}
        \cup {Remove(w, f) : f \in Fields}
        \cup {NoBytes}

\* the message is changed between the two sockets
Tamper ==
    /\ in_flight
    /\ ~changed
    /\ \E w \in Tamperings(wire) :
          /\ w # wire
          /\ wire' = w
    /\ changed' = TRUE
    /\ UNCHANGED <<in_flight, verify_signatures, msg_time, sent, received, nmsgs,
                   restVars>>

\* lines 217-246, SubscriberBase.receive when a message is there (both branches do the
\* same): what it returns, or that an exception left it
Receive ==
    /\ in_flight
    /\ LET r == deserialize_message(wire, msg_time)
       IN received' =
             IF r.raised
             THEN [outcome |-> "raised", message |-> NoMessage, is_authentic |-> FALSE]
             ELSE IF verify_signatures /\ ~r.is_authentic
             THEN [outcome |-> "None", message |-> NoMessage, is_authentic |-> FALSE]
             ELSE [outcome |-> "message", message |-> r.message,
                   is_authentic |-> r.is_authentic]
    /\ in_flight' = FALSE
    /\ wire' = NoBytes
    /\ UNCHANGED <<verify_signatures, msg_time, sent, changed, nmsgs, restVars>>

\* lines 229-239: the poll times out, receive returns None
ReceiveTimesOut ==
    /\ ~in_flight
    /\ received # NotCalled
    /\ received' = NotCalled
    /\ UNCHANGED <<wire, in_flight, verify_signatures, msg_time, sent, changed, nmsgs,
                   restVars>>

NextMessaging ==
    \/ \E v \in BOOLEAN : ConstructSubscriber(v)
    \/ \E msg_type \in MsgTypes, payload \in Payloads : Publish(msg_type, payload)
    \/ Tamper
    \/ Receive
    \/ ReceiveTimesOut

SpecMessaging == Init /\ [][NextMessaging]_vars

\* =================================================================== claims

\* the threads that hold a recording: save_recording between the choice of its path
\* (line 252) and the reset of line 284
Holding == {t \in Threads : mp3_path[t] # -1}

\* C1: at every instant at most one recording worker thread is alive, also after a
\* stop whose join timed out and a later restart of monitoring.
C1_AtMostOneWorker == Cardinality(Alive) <= 1

\* a thread is in save_recording after its read of the frame sequence (line 241) and
\* before it has cleared the session (line 284)
PastFlushRead(t) == pc[t] \in {"sv_export", "sv_append", "sv_finish", "sv_reset"}

\* C2: no frame is appended to the session between the read of the frame sequence
\* for the flush and the clearing of the session (stated for the first run of
\* monitoring, where a single worker exists).
C2_NoAppendDuringFlush ==
    [][(starts = 1 /\ \E t \in Threads : PastFlushRead(t))
          => Len(recorded_chunks') <= Len(recorded_chunks)]_vars

\* C3: a stop while RECORDING flushes the session's audio to exactly one recording:
\* never do two threads each write a recording of the same audio.
C3_ForcedStopFlushesOnce ==
    \A t, u \in Holding : t # u => data[t] # data[u]

\* C4: the worker ends a session by its normal rule only when no non-silent frame
\* arrived during the preceding silence_limit.
C4_SilenceGatedTermination ==
    [][\A t \in Workers :
          (~by_rule[t] /\ by_rule'[t]) => now - sound_at >= silence_limit]_vars

C6_NoSpuriousTrigger ==
    ~above_seen =>
        /\ ~is_recording
        /\ recorded_chunks = <<>>
        /\ nworkers = 0
        /\ Alive = {}
        /\ recording_thread = 0
        /\ DOMAIN files = {}
        /\ previous_recordings = <<>>
        /\ published = {}

C6_Witness ==
    /\ ~above_seen
    /\ nframes >= 2
    /\ \E i \in 1..Len(pre_buffer) : pre_buffer[i].amp = threshold
    /\ pc[Main] = "idle"

\* C7: after every append to and every eviction from the retention store it holds at
\* most max_recordings entries.
C7_BoundedRetention == Len(previous_recordings) <= max_recordings

C7_Witness ==
    /\ Len(previous_recordings) = max_recordings
    /\ Cardinality(DOMAIN files) > max_recordings
    /\ \E t \in Threads : pc[t] = "sv_finish"

\* C8: every entry that left the retention store has its audio file deleted: once
\* no flush is in progress, after cycles that each wrote a different recording, every
\* file in the output directory belongs to an entry of the store.
C8_EvictedFileDeleted ==
    (/\ Holding = {}
     /\ \A p, q \in DOMAIN files : p # q => files[p] # files[q])
        => DOMAIN files \subseteq Range(previous_recordings)

\* C9: the hook is called exactly once per recorded audio: no two calls carry the
\* same audio.
C9_PublishedOnce ==
    \A x, y \in published : x # y => x.data # y.data

\* C10: stopping leaves at most one recording of the active session: no two files
\* in the output directory hold the same audio.
C10_NoSecondRecording ==
    \A p, q \in DOMAIN files : p # q => files[p] # files[q]

\* the amplitudes of the chunks of a session, in order
ChunkAmps(chunks) == [i \in 1..Len(chunks) |-> chunks[i].amp]

\* C11 (Scenario A, scaled): silence as pre-roll, then sound above the trigger
\* threshold, then silence until the worker ends the session by its normal rule;
\* when that worker's flush has run there is exactly one persisted recording.
C11_ScenarioA ==
    \A t \in Workers :
        (/\ starts = 1 /\ nworkers = 1
         /\ by_rule[t] /\ pc[t] = "sv_reset"
         /\ ChunkAmps(recorded_chunks) = <<1, 3, 1>>)
            => Cardinality(DOMAIN files) = 1

\* C12: the monitor is never in RECORDING without a live worker that will reset it.
C12_NoStuckRecording == is_recording => Alive # {}

\* thread t is in save_recording with frames to flush
Flushing(t) ==
    pc[t] \in {"sv_check", "sv_write", "sv_export", "sv_append", "sv_finish", "sv_reset"}

\* C13: whatever fails while the recording is written, the flush ends with the
\* session cleared, and only a thread that wrote its recording goes on to the
\* retention store and the hook.
C13_FailedWriteDiscards ==
    [][\A t \in Threads :
          /\ pc'[t] \in {"sv_append", "sv_finish"} => mp3_path'[t] # -1
          /\ (Flushing(t) /\ ~Flushing(t)') => recorded_chunks' = <<>>]_vars

\* thread t enters save_recording while the session holds no frame
EmptyFlush(t) == pc[t] = "sv_check" /\ recorded_chunks = <<>>

\* C14: a flush attempted with zero accumulated frames returns at once: nothing is
\* written, no entry is added to the retention store, neither the transcription nor
\* the hook runs, and a worker goes on to its finally, which sets Mode to LISTENING.
C14_EmptyFlushSkips ==
    [][\A t \in Threads :
          /\ (EmptyFlush(t) /\ pc'[t] # pc[t])
                => /\ pc'[t] = Ret(t)
                   /\ files' = files
                   /\ previous_recordings' = previous_recordings
                   /\ transcripts' = transcripts
                   /\ published' = published
          /\ (t \in Workers /\ pc[t] = "w_finally" /\ pc'[t] # pc[t])
                => ~is_recording']_vars

\* the stopping thread flushes after the worker has flushed and cleared the session
C14_Witness ==
    /\ EmptyFlush(Main)
    /\ DOMAIN files # {}
    /\ Alive = {}

\* C15: the step that transcribes and publishes always goes on to line 276 (no
\* exception leaves the transcription), calls the hook exactly once for the recording
\* of this flush, with transcript None when the transcription gave none (and then no
\* sidecar was written), and leaves the recording in the retention store.
C15_TranscriptionAbsorbed ==
    [][\A t \in Threads :
          (pc[t] = "sv_finish" /\ pc'[t] # pc[t])
             => /\ pc'[t] = "sv_reset"
                /\ Cardinality(published') = Cardinality(published) + 1
                /\ \A x \in published' \ published :
                      /\ x.by = t /\ x.path = mp3_path[t]
                      /\ x.transcript = "None" => transcripts' = transcripts
                      /\ x.transcript # "None" => x.path \in transcripts'
                /\ mp3_path[t] \in Range(previous_recordings)
                      => mp3_path[t] \in Range(previous_recordings')]_vars

\* a worker has published a recording without transcript, the recording is in the
\* store, and the worker's finally has set Mode to LISTENING
C15_Witness ==
    /\ \E x \in published :
          /\ x.transcript = "None" /\ x.by \in Workers /\ pc[x.by] = "dead"
          /\ x.path \in Range(previous_recordings)
          /\ x.path \notin transcripts
    /\ ~is_recording

\* the last k entries of s, all of s when it is shorter
LastOf(s, k) == IF Len(s) > k THEN [i \in 1..k |-> s[Len(s) - k + i]] ELSE s

\* C16: the pre-roll buffer never exceeds its capacity; every arriving frame, in
\* either Mode, leaves in it the most recent samples (the old content followed by the
\* frame's samples, cut to the capacity from the left); nothing else changes it.
C16_RingBuffer ==
    [][/\ Len(pre_buffer') <= pre_buffer_maxlen
       /\ IF nframes' # nframes
          THEN \E a \in Amplitudes, n \in 1..MaxFrameLen :
                  LET indata == [k \in 1..n |->
                                   [id |-> nframes', k |-> k, n |-> 1, amp |-> a, dim |-> 1]]
                  IN pre_buffer' = LastOf(pre_buffer \o indata, pre_buffer_maxlen)
          ELSE pre_buffer' = pre_buffer]_vars

\* a frame that arrived while RECORDING pushed the oldest sample out of a full buffer
C16_Witness ==
    /\ is_recording
    /\ Len(pre_buffer) = pre_buffer_maxlen
    /\ pre_buffer[1].id > 1
    /\ pre_buffer[Len(pre_buffer)].id = nframes
    /\ recorded_chunks # <<>>
    /\ recorded_chunks[Len(recorded_chunks)] = Block([id |-> nframes, n |-> 1, amp |-> 1])

\* C17: no transcript file outlives the entry it belongs to: once no flush is in
\* progress, after cycles that each wrote a different recording, every sidecar
\* transcript belongs to an entry of the retention store.
C17_SidecarDeletedWithEntry ==
    (/\ Holding = {}
     /\ \A p, q \in DOMAIN files : p # q => files[p] # files[q])
        => transcripts \subseteq Range(previous_recordings)

\* the settings the specification calls valid
ValidSettings(c) ==
    /\ c.threshold >= 0
    /\ c.silence_limit >= 0
    /\ c.min_record_time >= 0
    /\ c.buffer_capacity >= 0
    /\ c.max_recordings >= 1

\* C19: a monitor with invalid settings never enters LISTENING.
C19_InvalidConfigRejected == is_monitoring => ValidSettings(settings)

\* the call of publish_trigger that a step makes is due: no trigger has been published
\* since construction, or the last one is at least trigger_cooldown seconds old
TriggerDue ==
    \/ trigger_log = <<>>
    \/ wall_clock - trigger_log[Len(trigger_log)].time >= trigger_cooldown

\* C20: a call of publish_trigger publishes exactly when it is due (the first call
\* after construction is); a call that is not due publishes nothing and leaves
\* last_trigger_time as it was; any two published triggers are at least
\* trigger_cooldown seconds apart.
C20_TriggerCooldown ==
    /\ [][trigger_calls' # trigger_calls =>
            IF TriggerDue
            THEN /\ Len(trigger_log') = Len(trigger_log) + 1
                 /\ trigger_log'[Len(trigger_log')].time = wall_clock
            ELSE /\ trigger_log' = trigger_log
                 /\ last_trigger_time' = last_trigger_time]_vars
    /\ [](\A i, j \in DOMAIN trigger_log :
            i < j => trigger_log[j].time - trigger_log[i].time >= trigger_cooldown)

\* a first call has published, a call inside the cooldown was held back, and a call
\* made exactly trigger_cooldown seconds after the first has published
C20_Witness ==
    /\ Len(trigger_log) = 2
    /\ trigger_calls = 3
    /\ trigger_log[1].time = ConstructionTime
    /\ trigger_log[2].time = ConstructionTime + trigger_cooldown

\* C21: an instance constructed without a path exposes the default values, whatever
\* other instances were constructed from files in the same process, and loading a
\* file changes neither DEFAULT_CONFIG nor any other instance.
C21_DefaultsIsolated ==
    /\ \A s \in DOMAIN DEFAULT_CONFIG : heap[DEFAULT_CONFIG[s]] = DefaultSections[DEFAULT_CONFIG[s]]
    /\ \A i \in DOMAIN configs :
          configs[i].path = "None" =>
             /\ Get(i, "audio", "sample_rate") = 16000
             /\ Get(i, "audio", "chunk_size") = 1024
             /\ Get(i, "audio", "amplitude_threshold") = 1000
             /\ Get(i, "triggers", "cooldown") = 2
             /\ Get(i, "audio", "enabled")
             /\ ~Get(i, "video", "enabled")

\* the merge the claim describes, of the items i.. of a file into the sections d
RECURSIVE MergedPerSection(_, _, _)
MergedPerSection(d, items, i) ==
    IF i > Len(items) THEN d
    ELSE LET section == items[i][1]
             values == items[i][2]
         IN MergedPerSection(
               DictSet(d, section,
                       IF section \in DOMAIN d THEN DictUpdate(d[section], values)
                                               ELSE values),
               items, i + 1)

\* the default value of every section, by name
DefaultBySection == [s \in DOMAIN DEFAULT_CONFIG |-> DefaultSections[DEFAULT_CONFIG[s]]]

\* C22: the instance constructed from an existing JSON file holds, section by section,
\* the defaults overridden by the keys of the file, and the sections the defaults do
\* not know as the file gives them.
C22_MergePerSection ==
    [][\A path \in ConfigPaths :
          (/\ PathExists(path) /\ Parses(path)
           /\ Len(configs') = Len(configs) + 1
           /\ configs'[Len(configs')].path = path)
          => LET i == Len(configs')
                 expected == MergedPerSection(DefaultBySection, Loaded(path), 1)
             IN /\ DOMAIN configs'[i].config = DOMAIN expected
                /\ \A s \in DOMAIN expected :
                      heap'[configs'[i].config[s]] = expected[s]]_vars

\* C23: _handle_request answers "success" exactly for an STT request with non-empty
\* audio_data and for a TTS request with non-empty text whose conversion gives
\* non-empty audio; every other request is answered "error" with a message, and the
\* agent is called at most once per request.
C23_HandleRequest ==
    \A i \in DOMAIN handled :
       LET h == handled[i]
           stt == h.request.type = "stt_request" /\ h.request.audio_data = "content"
           tts == /\ h.request.type = "tts_request"
                  /\ h.request.text = "content"
                  /\ h.tts_audio = "content"
       IN /\ h.response.status \in {"success", "error"}
          /\ h.response.status = "success" <=> (stt \/ tts)
          /\ h.response.status = "error" => h.response.error # ""
          /\ Len(h.calls) <= 1

\* an STT request with empty audio_data was answered "error", then a TTS request
\* was answered "success"
C23_Witness ==
    /\ Len(handled) = 2
    /\ handled[1].request.type = "stt_request"
    /\ handled[1].request.audio_data = ""
    /\ handled[1].response.status = "error"
    /\ handled[2].request.type = "tts_request"
    /\ handled[2].response.status = "success"

\* C24: while RECORDING, a poll of the worker made when the session has lasted at
\* least min_record_time and no non-silent frame has arrived for at least
\* silence_limit ends the session, whether or not frames still arrive.
C24_PollDecidesTermination ==
    [][\A t \in Workers :
          (/\ pc[t] = "w_poll" /\ pc'[t] # "w_poll"
           /\ starts = 1 /\ pc[Main] = "monitoring"
           /\ is_recording /\ recorded_chunks # <<>>
           /\ now - record_start[t] >= min_record_time
           /\ now - sound_at >= silence_limit)
          => by_rule'[t]]_vars

\* C25: once a worker's flush has left the session frame list empty, the list stays
\* empty until the worker has reset Mode to LISTENING, so that no frame is left over
\* for the next session (stated for the first run of monitoring).
C25_NoLeftoverFrame ==
    [][(/\ starts = 1 /\ pc[Main] = "monitoring"
        /\ recorded_chunks = <<>>
        /\ \E t \in Workers : pc[t] = "w_finally")
          => recorded_chunks' = <<>>]_vars

\* C26: the concatenation at flush succeeds for every non-empty session: the frames
\* a worker is about to concatenate all have the same number of dimensions (stated
\* for the first run of monitoring, while no stop is in progress).
C26_ConcatenationSucceeds ==
    \A t \in Workers :
        (/\ starts = 1 /\ pc[Main] = "monitoring"
         /\ pc[t] = "sv_write" /\ recorded_chunks # <<>>)
            => \A i, j \in DOMAIN recorded_chunks :
                  recorded_chunks[i].dim = recorded_chunks[j].dim

\* the stop path is in its flush: start_monitoring found is_recording set (line 380)
\* and is in the save_recording call of line 386
StopFlushing ==
    pc[Main] \in {"sv_check", "sv_write", "sv_export", "sv_append", "sv_finish", "sv_reset"}

\* C27: when a stop that found a session active returns, and no write has failed for a
\* reason outside the program, a recording of the session is in the output directory
\* (stated for the first run of monitoring).
C27_StopPersistsSession ==
    [][(/\ starts = 1 /\ ~io_failed'
        /\ StopFlushing /\ pc'[Main] = "idle")
          => DOMAIN files' # {}]_vars

\* C28: a flush runs its steps in program order (SaveExport, SaveAppend, SaveFinish,
\* SaveReset) and Mode is reset after them, so no new session is opened, that is Mode
\* never goes from LISTENING to RECORDING, while a thread is in a flush (stated for
\* runs in which no write fails for a reason outside the program).
C28_NoSessionDuringFlush ==
    [][(~io_failed /\ ~is_recording /\ is_recording')
          => \A t \in Threads : ~Flushing(t)]_vars

\* C29: the retention store has a single writer, the worker: while a worker thread is
\* in its flush, the thread that requested the stop neither appends to the store nor
\* evicts from it (stated for runs in which no write fails for a reason outside the
\* program).
C29_SingleWriter ==
    [][(/\ ~io_failed
        /\ \E t \in Workers : Flushing(t)
        /\ previous_recordings' # previous_recordings)
          => pc'[Main] = pc[Main]]_vars

\* C30: a file exists under a recording's final name only when its audio has been
\* written to the end: when no flush is in progress, no file of the output directory
\* is partially written.
C30_NoPartialFile ==
    (\A t \in Threads : ~Flushing(t)) => writing = {}

\* C31: the path a flush chooses for its recording differs from the path of every
\* recording the retention store holds, so no flush overwrites a retained recording
\* (stated for runs in which no write fails for a reason outside the program).
C31_UniquePath ==
    [][\A t \in Threads :
          (~io_failed /\ pc[t] = "sv_write" /\ pc'[t] = "sv_export")
             => mp3_path'[t] \notin Range(previous_recordings)]_vars

\* C32: the step that copies the pre-roll into the session leaves the pre-roll buffer
\* as it was and copies all of it, in order; and while RECORDING every arriving frame
\* is still fed to the buffer, whose newest entries are then that frame's samples.
C32_SnapshotKeepsBuffer ==
    [][/\ (cb.pc = "preroll" /\ cb'.pc = "idle")
            => /\ pre_buffer' = pre_buffer
               /\ recorded_chunks' = recorded_chunks \o pre_buffer
       /\ (is_recording /\ nframes' = nframes + 1)
            => LET b == recorded_chunks'[Len(recorded_chunks')]
                   k == Len(pre_buffer')
               IN /\ b.id = nframes'
                  /\ k >= 1
                  /\ pre_buffer'[k].id = nframes'
                  /\ pre_buffer'[k].amp = b.amp]_vars

\* a session has taken its snapshot and a later frame has arrived while RECORDING:
\* the buffer still holds the triggering frame and, after it, the later frame
C32_Witness ==
    /\ is_recording
    /\ cb.pc = "idle"
    /\ Len(recorded_chunks) = 2
    /\ recorded_chunks[1].dim = 1
    /\ recorded_chunks[2].dim = 2
    /\ Len(pre_buffer) = 2
    /\ pre_buffer[1].id = recorded_chunks[1].id
    /\ pre_buffer[2].id = recorded_chunks[2].id

\* C33: whether a poll of the worker ends the session depends only on the time that
\* has really passed since the session's start and since the worker last saw a
\* non-silent newest frame: the poll ends the session exactly if the first is at
\* least min_record_time and the second at least silence_limit, whatever the wall
\* clock was set to in between.
C33_RealElapsedDecides ==
    [][\A t \in Workers :
          (/\ pc[t] = "w_poll" /\ pc'[t] # "w_poll"
           /\ recorded_chunks # <<>>)
          => (by_rule'[t] <=>
                 (/\ now - monotonic[t].start >= min_record_time
                  /\ now - monotonic'[t].sound >= silence_limit))]_vars

\* C34: when the registered hook raises, the flush goes on: the step that calls the
\* hook keeps the recording it has just added in the list of previous recordings and
\* on disk and continues with the reset, the reset leaves the session frame list
\* empty and returns to the caller, and the worker that returns from a flush then
\* sets is_recording to False.
C34_HookFailureContained ==
    [][\A t \in Threads :
          /\ (pc[t] = "sv_finish" /\ hook_raised'[t])
                => /\ pc'[t] = "sv_reset"
                   /\ mp3_path[t] \in Range(previous_recordings)
                         => /\ mp3_path[t] \in Range(previous_recordings')
                            /\ mp3_path[t] \in DOMAIN files
                                  => mp3_path[t] \in DOMAIN files'
          /\ (hook_raised[t] /\ pc[t] = "sv_reset" /\ pc'[t] # "sv_reset")
                => /\ recorded_chunks' = <<>>
                   /\ pc'[t] = Ret(t)
          /\ (pc[t] = "w_finally" /\ pc'[t] # "w_finally")
                => /\ ~is_recording'
                   /\ pc'[t] = "dead"]_vars

\* the hook called by the first worker has raised: the worker is at the reset, its
\* recording is in the list and on disk, and the session is still to be cleared
C34_Witness ==
    /\ hook_raised[1] /\ pc[1] = "sv_reset"
    /\ recorded_chunks # <<>>
    /\ mp3_path[1] \in Range(previous_recordings)
    /\ mp3_path[1] \in DOMAIN files

\* C35: at most one loop thread of the awareness node's AudioMonitor runs the capture
\* loop at any time, whatever start() and stop() calls are made; a start() while
\* is_running returns True and creates no thread; a start() without PyAudio returns
\* False and leaves is_running False.
C35_SingleLoopThread ==
    [][/\ Cardinality(Looping') <= 1
       /\ (ncalls' = ncalls + 1 /\ last_call'.op = "start")
             => /\ is_running => (last_call'.result = "True" /\ nthreads' = nthreads)
                /\ (~is_running /\ ~pa)
                      => (last_call'.result = "False" /\ ~is_running')]_vars

\* the newest message published has been received
Delivered == nmsgs > 0 /\ ~in_flight /\ received # NotCalled

\* C36: a message received as it was sent comes back with the type, payload and
\* timestamp it was created with and is authentic; a message that was changed on the
\* way (a field replaced or taken out, the signature included) is found not authentic
\* without an exception, and a subscriber that verifies signatures returns None for it.
C36_AuthenticRoundTrip ==
    Delivered =>
        IF changed
        THEN /\ received.outcome # "raised"
             /\ ~received.is_authentic
             /\ verify_signatures => received.outcome = "None"
        ELSE /\ received.outcome = "message"
             /\ received.is_authentic
             /\ received.message.present = {"type", "payload", "timestamp"}
             /\ received.message.type = sent.type
             /\ received.message.payload = sent.payload
             /\ received.message.timestamp = sent.timestamp

====
